---- MODULE Spec2Model ----
(***************************************************************************)
(* Model of src/db/crud/books.crud.ts: the data-access functions over the  *)
(* two tables `books` (Title) and `physical_books` (Copy).                 *)
(*                                                                         *)
(* The store is shared with other clients, so every `await db...` is one   *)
(* atomic step and other clients may act between two steps of one call.    *)
(* Every store call may fail (connection, timeout): a nondeterministic     *)
(* outcome of the step.                                                    *)
(***************************************************************************)
EXTENDS Integers, Sequences, FiniteSets, TLC

\* ------------------------------------------------------------------ bounds
MaxBooks == 1        \* Titles created in the Copy specifications
MaxCopies == 2       \* Copies ever created (pids 1..MaxCopies)
MaxBookCopies == 3   \* Copies ever created in the availability specification
MaxTitles == 11      \* Titles created in the listing specification
MaxVaried == 4       \* the first MaxVaried Titles vary in content
SmallPageSize == 3   \* a page size below the default

\* The inputs' value sets
Counts == {0, 1}                  \* totalCopies / availableCopies a caller passes
BookIds == 1..(MaxBooks + 1)      \* ids a caller passes: of a Title, or of none

\* ------------------------------------------------------- program constants
DefaultPageSize == 10

\* JavaScript's null and undefined, and a rejected promise of the store
Null == [js |-> "null"]
Undefined == [js |-> "undefined"]
Raised(msg) == [js |-> "throw", message |-> msg]
Value(v) == [js |-> "value", value |-> v]
Pending == [js |-> "pending"]

StoreError == "store call failed"
NotFoundErrorMut == "Cannot remove a borrowed book"
NotFoundError == "Physical book not found"
BorrowedError == "Cannot remove a borrowed book"

VARIABLES
  books,          \* table books: a set of Title rows
  physicalBooks,  \* table physical_books: a set of Copy rows
  nextBookId,     \* the serial that assigns books.id
  nextPid,        \* the serial that assigns physical_books.pid
  del,            \* deletePhysicalBook: each caller's position and locals
  rsb,            \* readSingleBook: the caller's position and locals
  upd,            \* updateBooks: the last call and what it returned
  lst             \* readBooks / fetchBooksByQuery: the caller's position and locals

vars == <<books, physicalBooks, nextBookId, nextPid, del, rsb, upd, lst>>

Deleters == {"d1", "d2"}

\* ------------------------------------------------------------ JS helpers
\* A JS array of the rows in S, in some order (used where order is unobserved).
RECURSIVE SetToSeq(_)
SetToSeq(S) ==
  IF S = {} THEN <<>>
  ELSE LET x == CHOOSE y \in S : TRUE IN <<x>> \o SetToSeq(S \ {x})

\* .limit(n) of a result
Limit(rows, n) == SubSeq(rows, 1, IF Len(rows) < n THEN Len(rows) ELSE n)

\* arr[0]: undefined past the end of the array
Index0(arr) == IF Len(arr) > 0 THEN Value(arr[1]) ELSE Undefined

\* The store sends a count(*) (a Postgres bigint) as its decimal digits.
RECURSIVE ToDecimal(_)
ToDecimal(n) == IF n < 10 THEN <<n>> ELSE ToDecimal(n \div 10) \o <<n % 10>>

CountStar(rows) == <<[count |-> ToDecimal(Cardinality(rows))]>>

\* Number(x), and the ToNumber that `/` applies to its operands, of decimal digits
RECURSIVE Number(_)
Number(digits) ==
  IF Len(digits) = 0 THEN 0
  ELSE Number(SubSeq(digits, 1, Len(digits) - 1)) * 10 + digits[Len(digits)]

\* ------------------------------------------------------------ table rows
Title(id, isbn, title, author, genre, totalCopies, availableCopies, cover) ==
  [id |-> id, isbn |-> isbn, title |-> title, author |-> author, genre |-> genre,
   totalCopies |-> totalCopies, availableCopies |-> availableCopies, cover |-> cover]

Copy(pid, bookId, borrowed, returnDate, userId, currTransactionId) ==
  [pid |-> pid, bookId |-> bookId, borrowed |-> borrowed, returnDate |-> returnDate,
   userId |-> userId, currTransactionId |-> currTransactionId]

\* ============================================================ Title writes
\* createBooks: insert one Title; the store assigns the id.
createBooks(isbn, title, author, genre, totalCopies, availableCopies, cover) ==
  /\ \E ok \in BOOLEAN :
       IF ok
       THEN /\ books' = books \cup
                 {Title(nextBookId, isbn, title, author, genre,
                        totalCopies, availableCopies, cover)}
            /\ nextBookId' = nextBookId + 1
       ELSE UNCHANGED <<books, nextBookId>>
  /\ UNCHANGED <<physicalBooks, nextPid, del, rsb, upd, lst>>

\* ============================================================= Copy writes
\* createPhysicalBooks: insert one Copy; the store assigns the pid.
createPhysicalBooks(bookId, borrowed, returnDate, userId, currTransactionId) ==
  /\ \E ok \in BOOLEAN :
       IF ok
       THEN /\ physicalBooks' = physicalBooks \cup
                 {Copy(nextPid, bookId, borrowed, returnDate, userId, currTransactionId)}
            /\ nextPid' = nextPid + 1
       ELSE UNCHANGED <<physicalBooks, nextPid>>
  /\ UNCHANGED <<books, nextBookId, del, rsb, upd, lst>>

\* The lending workflow (another module of the application) borrows a Copy:
\* it sets borrowed, returnDate, userId and currTransactionId of the row.
Borrow(pid) ==
  /\ \E c \in physicalBooks :
       /\ c.pid = pid
       /\ ~c.borrowed
       /\ physicalBooks' = (physicalBooks \ {c}) \cup
            {Copy(c.pid, c.bookId, TRUE, "2026-01-01", "u1", "t1")}
  /\ UNCHANGED <<books, nextBookId, nextPid, del, rsb, upd, lst>>

\* The lending workflow takes a Copy back.
Return(pid) ==
  /\ \E c \in physicalBooks :
       /\ c.pid = pid
       /\ c.borrowed
       /\ physicalBooks' = (physicalBooks \ {c}) \cup
            {Copy(c.pid, c.bookId, FALSE, "null", "null", "null")}
  /\ UNCHANGED <<books, nextBookId, nextPid, del, rsb, upd, lst>>

\* ====================================================== deletePhysicalBook
\* db.select().from(physicalBooks).where(eq(physicalBooks.pid, pid)).limit(1)
SelectPhysicalBook(pid) ==
  Limit(SetToSeq({c \in physicalBooks : c.pid = pid}), 1)

\* if (physicalBook.length === 0)
NotFoundGuard(physicalBook) == Len(physicalBook) = 0

\* if (physicalBook[0].borrowed)
BorrowedGuardMut(physicalBook) == FALSE
BorrowedGuard(physicalBook) == physicalBook[1].borrowed

\* db.delete(physicalBooks).where(eq(physicalBooks.pid, pid)): the rows it removes
DeleteWhereMutNone(pid) == {}
DeleteWhereMutTitle(pid) ==
  {c \in physicalBooks : \E d \in physicalBooks : d.pid = pid /\ d.bookId = c.bookId}
DeleteWhere(pid) == {c \in physicalBooks : c.pid = pid}

DelIdle == [pc |-> "idle", pid |-> 0, physicalBook |-> <<>>, result |-> Pending]

\* The call up to its first throw or to the delete: the select, then the two guards.
DeleteSelect(p, pid) ==
  /\ del[p].pc = "idle"
  /\ \E ok \in BOOLEAN :
       IF ~ok
       THEN del' = [del EXCEPT ![p] = [pc |-> "done", pid |-> pid, physicalBook |-> <<>>,
                                       result |-> Raised(StoreError)]]
       ELSE LET physicalBook == SelectPhysicalBook(pid) IN
            IF NotFoundGuard(physicalBook)
            THEN del' = [del EXCEPT ![p] = [pc |-> "done", pid |-> pid,
                                            physicalBook |-> physicalBook,
                                            result |-> Raised(NotFoundError)]]
            ELSE IF BorrowedGuard(physicalBook)
            THEN del' = [del EXCEPT ![p] = [pc |-> "done", pid |-> pid,
                                            physicalBook |-> physicalBook,
                                            result |-> Raised(BorrowedError)]]
            ELSE del' = [del EXCEPT ![p] = [pc |-> "delete", pid |-> pid,
                                            physicalBook |-> physicalBook,
                                            result |-> Pending]]
  /\ UNCHANGED <<books, physicalBooks, nextBookId, nextPid, rsb, upd, lst>>

\* await db.delete(...); return true
DeleteDelete(p) ==
  /\ del[p].pc = "delete"
  /\ \E ok \in BOOLEAN :
       IF ok
       THEN /\ physicalBooks' = physicalBooks \ DeleteWhere(del[p].pid)
            /\ del' = [del EXCEPT ![p].pc = "done", ![p].result = Value(TRUE)]
       ELSE /\ UNCHANGED physicalBooks
            /\ del' = [del EXCEPT ![p].pc = "done", ![p].result = Raised(StoreError)]
  /\ UNCHANGED <<books, nextBookId, nextPid, rsb, upd, lst>>

\* The caller has the outcome and may call again.
DeleteReturn(p) ==
  /\ del[p].pc = "done"
  /\ del' = [del EXCEPT ![p] = DelIdle]
  /\ UNCHANGED <<books, physicalBooks, nextBookId, nextPid, rsb, upd, lst>>

\* ============================================================= updateBooks
\* db.update(books).set({totalCopies, availableCopies}).where(eq(books.id, id))
\* .returning(): the rows as updated
UpdateSet(id, totalCopies, availableCopies) ==
  {[b EXCEPT !.totalCopies = totalCopies, !.availableCopies = availableCopies] :
     b \in {x \in books : x.id = id}}

\* One store call; the catch returns null, the try returns updatedBook[0].
updateBooks(id, totalCopies, availableCopies) ==
  /\ \E ok \in BOOLEAN :
       IF ok
       THEN LET updated == UpdateSet(id, totalCopies, availableCopies)
                updatedBook == SetToSeq(updated)
            IN /\ books' = {b \in books : b.id # id} \cup updated
               /\ upd' = [id |-> id, totalCopies |-> totalCopies,
                          availableCopies |-> availableCopies, error |-> FALSE,
                          result |-> Index0(updatedBook)]
       ELSE /\ UNCHANGED books
            /\ upd' = [id |-> id, totalCopies |-> totalCopies,
                       availableCopies |-> availableCopies, error |-> TRUE,
                       result |-> Null]
  /\ UNCHANGED <<physicalBooks, nextBookId, nextPid, del, rsb, lst>>

\* deleteBooks: unconditional delete by id; a failure is logged and swallowed.
deleteBooks(id) ==
  /\ \E ok \in BOOLEAN :
       IF ok THEN books' = {b \in books : b.id # id} ELSE UNCHANGED books
  /\ UNCHANGED <<physicalBooks, nextBookId, nextPid, del, rsb, upd, lst>>

\* readPhysicalBooks: all Copies of a Title
readPhysicalBooks(bookId) == SetToSeq({c \in physicalBooks : c.bookId = bookId})

\* ========================================================== readSingleBook
\* db.select().from(books).where(eq(books.id, bookId)).limit(1)
SelectBook(bookId) == Limit(SetToSeq({b \in books : b.id = bookId}), 1)

\* .where(and(eq(physicalBooks.bookId, bookId), eq(physicalBooks.borrowed, false)))
AvailableWhere(bookId) == {c \in physicalBooks : c.bookId = bookId /\ c.borrowed = FALSE}

\* { ...book[0], availableBooks: Number(availableCount[0].count) }
WithAvailableMutCached(book, availableCount) ==
  [k \in DOMAIN book \cup {"availableBooks"} |->
     IF k = "availableBooks" THEN book.availableCopies ELSE book[k]]
WithAvailable(book, availableCount) ==
  [k \in DOMAIN book \cup {"availableBooks"} |->
     IF k = "availableBooks" THEN Number(availableCount[1].count) ELSE book[k]]

\* The first query and the early return.
RsbSelect(bookId) ==
  /\ rsb.pc = "idle"
  /\ \E ok \in BOOLEAN :
       IF ~ok
       THEN rsb' = [pc |-> "done", bookId |-> bookId, book |-> <<>>,
                    result |-> Raised(StoreError)]
       ELSE LET book == SelectBook(bookId) IN
            IF Len(book) = 0
            THEN rsb' = [pc |-> "done", bookId |-> bookId, book |-> book,
                         result |-> Null]
            ELSE rsb' = [pc |-> "count", bookId |-> bookId, book |-> book,
                         result |-> Pending]
  /\ UNCHANGED <<books, physicalBooks, nextBookId, nextPid, del, upd, lst>>

\* The second query and the merged record.
RsbCount ==
  /\ rsb.pc = "count"
  /\ \E ok \in BOOLEAN :
       IF ~ok
       THEN rsb' = [rsb EXCEPT !.pc = "done", !.result = Raised(StoreError)]
       ELSE LET availableCount == CountStar(AvailableWhere(rsb.bookId)) IN
            rsb' = [rsb EXCEPT !.pc = "done",
                               !.result = Value(WithAvailable(rsb.book[1], availableCount))]
  /\ UNCHANGED <<books, physicalBooks, nextBookId, nextPid, del, upd, lst>>

RsbReturn ==
  /\ rsb.pc = "done"
  /\ rsb' = [pc |-> "idle", bookId |-> 0, book |-> <<>>, result |-> Pending]
  /\ UNCHANGED <<books, physicalBooks, nextBookId, nextPid, del, upd, lst>>

\* ================================================================ readBooks
LstIdle ==
  [pc |-> "idle", op |-> "none", page |-> 0, pageSize |-> 0, sortField |-> "none",
   sortOrder |-> "none", query |-> <<>>, rows |-> Pending, total |-> Pending,
   result |-> Pending, acc |-> <<>>]

\* Strings are sequences of characters.  lower(c) of the store and the rank of a
\* character in the store's collation:
LowerChar(c) == IF c = "A" THEN "a" ELSE c
Lower(str) == [i \in 1..Len(str) |-> LowerChar(str[i])]
CharRank(c) == CASE c = "1" -> 1 [] c = "2" -> 2 [] c = "A" -> 3 [] c = "a" -> 4
                 [] c = "b" -> 5 [] c = "g" -> 6 [] OTHER -> 7

\* col LIKE '%q%'
Like(str, q) == \E i \in 1..(Len(str) + 1) :
                  i + Len(q) - 1 <= Len(str) /\ SubSeq(str, i, i + Len(q) - 1) = q

RECURSIVE StrLess(_, _)
StrLess(x, y) ==
  IF Len(y) = 0 THEN FALSE
  ELSE IF Len(x) = 0 THEN TRUE
  ELSE IF x[1] # y[1] THEN CharRank(x[1]) < CharRank(y[1])
  ELSE StrLess(Tail(x), Tail(y))

\* const offset = (page - 1) * pageSize
Offset(page, pageSize) == (page - 1) * pageSize

\* Math.ceil(count / pageSize), pageSize > 0
MathCeilMutFloorPlusOne(count, pageSize) == (count \div pageSize) + 1
MathCeil(count, pageSize) == (count + pageSize - 1) \div pageSize

\* whereClause: searchQuery ? or(like(title), like(author), like(isbn)) : undefined
WhereClause(searchQuery) ==
  IF Len(searchQuery) > 0
  THEN {b \in books : \/ Like(b.title, searchQuery)
                      \/ Like(b.author, searchQuery)
                      \/ Like(b.isbn, searchQuery)}
  ELSE books

\* orderByClause: sortOrder === "desc" ? desc(books[sortField]) : asc(books[sortField]).
\* Before(a, b): a sorts before b.  Rows equal in the sort field come in an order
\* the store chooses at each query; `tie` is that choice, here the order of
\* insertion or its reverse.
TieBreaks == {"forward", "backward"}
FieldLess(a, b, sortField) ==
  IF sortField = "id" THEN a.id < b.id ELSE StrLess(a.title, b.title)
Before(a, b, sortField, sortOrder, tie) ==
  LET lt == IF sortOrder = "desc" THEN FieldLess(b, a, sortField)
            ELSE FieldLess(a, b, sortField)
      gt == IF sortOrder = "desc" THEN FieldLess(a, b, sortField)
            ELSE FieldLess(b, a, sortField)
  IN \/ lt
     \/ ~gt /\ (IF tie = "forward" THEN a.id < b.id ELSE a.id > b.id)

RECURSIVE OrderBy(_, _, _, _)
OrderBy(rows, sortField, sortOrder, tie) ==
  IF rows = {} THEN <<>>
  ELSE LET first == CHOOSE a \in rows :
                      \A b \in rows \ {a} : Before(a, b, sortField, sortOrder, tie)
       IN <<first>> \o OrderBy(rows \ {first}, sortField, sortOrder, tie)

\* .limit(pageSize).offset(offset)
LimitOffset(rows, limit, offset) ==
  IF offset >= Len(rows) THEN <<>>
  ELSE SubSeq(rows, offset + 1,
              IF offset + limit < Len(rows) THEN offset + limit ELSE Len(rows))

\* return { books, totalBooks: total[0].count, totalPages: Math.ceil(... / pageSize) }
ReadBooksResult(booksList, total, pageSize) ==
  Value([books |-> booksList, totalBooks |-> total[1].count,
         totalPages |-> MathCeil(Number(total[1].count), pageSize)])

\* Promise.all of the two queries: rejected by the first that fails, resolved when
\* both have their rows.  readBooks has no catch: the rejection is raised.
ReadBooksSettle(l) ==
  IF l.rows.js = "throw" \/ l.total.js = "throw"
  THEN [l EXCEPT !.pc = "done", !.result = Raised(StoreError)]
  ELSE IF l.rows.js = "value" /\ l.total.js = "value"
  THEN [l EXCEPT !.pc = "done",
                 !.result = ReadBooksResult(l.rows.value, l.total.value, l.pageSize)]
  ELSE l

ReadBooksCall(page, pageSize, sortField, sortOrder, searchQuery) ==
  /\ lst.pc = "idle"
  /\ lst' = [LstIdle EXCEPT !.pc = "queries", !.op = "readBooks", !.page = page,
                            !.pageSize = pageSize, !.sortField = sortField,
                            !.sortOrder = sortOrder, !.query = searchQuery]
  /\ UNCHANGED <<books, physicalBooks, nextBookId, nextPid, del, rsb, upd>>

\* db.select().from(books).where(..).orderBy(..).limit(pageSize).offset(offset)
ReadBooksRows ==
  /\ lst.pc = "queries" /\ lst.op = "readBooks" /\ lst.rows = Pending
  /\ \E ok \in BOOLEAN, tie \in TieBreaks :
       lst' = ReadBooksSettle(
                [lst EXCEPT !.rows =
                   IF ok
                   THEN Value(LimitOffset(OrderBy(WhereClause(lst.query), lst.sortField,
                                                  lst.sortOrder, tie),
                                          lst.pageSize, Offset(lst.page, lst.pageSize)))
                   ELSE Raised(StoreError)])
  /\ UNCHANGED <<books, physicalBooks, nextBookId, nextPid, del, rsb, upd>>

\* db.select({ count: sql`count(*)` }).from(books).where(whereClause)
ReadBooksCount ==
  /\ lst.pc = "queries" /\ lst.op = "readBooks" /\ lst.total = Pending
  /\ \E ok \in BOOLEAN :
       lst' = ReadBooksSettle(
                [lst EXCEPT !.total =
                   IF ok THEN Value(CountStar(WhereClause(lst.query)))
                   ELSE Raised(StoreError)])
  /\ UNCHANGED <<books, physicalBooks, nextBookId, nextPid, del, rsb, upd>>

\* The caller that lists every page: it keeps the rows of the page it got and
\* asks for the next page with the same sort and filter.
NextPage ==
  /\ lst.pc = "done" /\ lst.op = "readBooks" /\ lst.result.js = "value"
  /\ lst.page < lst.result.value.totalPages
  /\ lst' = [lst EXCEPT !.pc = "queries", !.page = lst.page + 1, !.rows = Pending,
                        !.total = Pending, !.result = Pending,
                        !.acc = lst.acc \o lst.result.value.books]
  /\ UNCHANGED <<books, physicalBooks, nextBookId, nextPid, del, rsb, upd>>

\* ========================================================= fetchBooksByQuery
\* LOWER(title) LIKE LOWER(%q%) OR ... author ... isbn ... genre
SearchWhere(query) ==
  {b \in books : \/ Like(Lower(b.title), Lower(query))
                 \/ Like(Lower(b.author), Lower(query))
                 \/ Like(Lower(b.isbn), Lower(query))
                 \/ Like(Lower(b.genre), Lower(query))}

\* the catch: an empty result for the page asked
FetchErrorResultMutRethrow(page) == Raised(StoreError)
FetchErrorResult(page) ==
  Value([books |-> <<>>, totalPages |-> 0, currentPage |-> page, totalBooks |-> 0])

FetchResult(searchResults, totalCount, page, pageSize) ==
  Value([books |-> searchResults, totalPages |-> MathCeil(totalCount, pageSize),
         currentPage |-> page, totalBooks |-> totalCount])

FetchSettle(l) ==
  IF l.rows.js = "throw" \/ l.total.js = "throw"
  THEN [l EXCEPT !.pc = "done", !.result = FetchErrorResult(l.page)]
  ELSE IF l.rows.js = "value" /\ l.total.js = "value"
  THEN [l EXCEPT !.pc = "done",
                 !.result = FetchResult(l.rows.value, l.total.value, l.page, l.pageSize)]
  ELSE l

FetchCall(query, page, pageSize) ==
  /\ lst.pc = "idle"
  /\ lst' = [LstIdle EXCEPT !.pc = "queries", !.op = "fetchBooksByQuery",
                            !.page = page, !.pageSize = pageSize, !.query = query]
  /\ UNCHANGED <<books, physicalBooks, nextBookId, nextPid, del, rsb, upd>>

\* the select ordered by desc(books.id), limited and offset
FetchRows ==
  /\ lst.pc = "queries" /\ lst.op = "fetchBooksByQuery" /\ lst.rows = Pending
  /\ \E ok \in BOOLEAN :
       lst' = FetchSettle(
                [lst EXCEPT !.rows =
                   IF ok
                   THEN Value(LimitOffset(OrderBy(SearchWhere(lst.query), "id", "desc",
                                                  "forward"),
                                          lst.pageSize, Offset(lst.page, lst.pageSize)))
                   ELSE Raised(StoreError)])
  /\ UNCHANGED <<books, physicalBooks, nextBookId, nextPid, del, rsb, upd>>

\* the select of the ids, .then((res) => res.length)
FetchCount ==
  /\ lst.pc = "queries" /\ lst.op = "fetchBooksByQuery" /\ lst.total = Pending
  /\ \E ok \in BOOLEAN :
       lst' = FetchSettle(
                [lst EXCEPT !.total =
                   IF ok THEN Value(Len(SetToSeq({b.id : b \in SearchWhere(lst.query)})))
                   ELSE Raised(StoreError)])
  /\ UNCHANGED <<books, physicalBooks, nextBookId, nextPid, del, rsb, upd>>

\* The caller has the outcome and may call again.
ListReturn ==
  /\ lst.pc = "done"
  /\ lst' = LstIdle
  /\ UNCHANGED <<books, physicalBooks, nextBookId, nextPid, del, rsb, upd>>

\* ================================================================== Init
RsbIdle == [pc |-> "idle", bookId |-> 0, book |-> <<>>, result |-> Pending]
UpdNone == [id |-> 0, totalCopies |-> 0, availableCopies |-> 0, error |-> FALSE,
            result |-> Pending]
Init ==
  /\ books = {}
  /\ physicalBooks = {}
  /\ nextBookId = 1
  /\ nextPid = 1
  /\ del = [p \in Deleters |-> DelIdle]
  /\ rsb = RsbIdle
  /\ upd = UpdNone
  /\ lst = LstIdle

\* ======================================= specification of the Copy delete
CopyInputs ==
  { <<FALSE, "null", "null", "null">>, <<TRUE, "2026-01-01", "u1", "t1">> }

Next ==
  \/ \E ac \in Counts :
       /\ nextBookId <= MaxBooks
       /\ createBooks(<<"1">>, <<"a">>, <<"x">>, <<"g">>, 1, ac, "c")
  \/ \E b \in BookIds, i \in CopyInputs :
       /\ nextPid <= MaxCopies
       /\ createPhysicalBooks(b, i[1], i[2], i[3], i[4])
  \/ \E pid \in 1..MaxCopies : Borrow(pid)
  \/ \E pid \in 1..MaxCopies : Return(pid)
  \/ \E p \in Deleters, pid \in 1..MaxCopies : DeleteSelect(p, pid)
  \/ \E p \in Deleters : DeleteDelete(p)
  \/ \E p \in Deleters : DeleteReturn(p)

Spec == Init /\ [][Next]_vars

\* ================= specification of the Title updates and the availability
NextBook ==
  \/ \E ac \in Counts :
       /\ nextBookId <= MaxBooks
       /\ createBooks(<<"1">>, <<"a">>, <<"x">>, <<"g">>, 1, ac, "c")
  \/ \E id \in BookIds : deleteBooks(id)
  \/ \E b \in BookIds, i \in CopyInputs :
       /\ nextPid <= MaxBookCopies
       /\ createPhysicalBooks(b, i[1], i[2], i[3], i[4])
  \/ \E pid \in 1..MaxBookCopies : Borrow(pid)
  \/ \E pid \in 1..MaxBookCopies : Return(pid)
  \/ \E id \in BookIds : RsbSelect(id)
  \/ RsbCount
  \/ RsbReturn

SpecBook == Init /\ [][NextBook]_vars

\* ================================== specification of the copy-count update
NextUpdate ==
  \/ \E tc \in Counts, ac \in Counts :
       /\ nextBookId <= MaxBooks
       /\ createBooks(<<"1">>, <<"a">>, <<"x">>, <<"g">>, tc, ac, "c")
  \/ \E id \in BookIds : deleteBooks(id)
  \/ \E id \in BookIds, tc \in Counts, ac \in Counts :
       updateBooks(id, tc, ac)

SpecUpdate == Init /\ [][NextUpdate]_vars

\* ================================= specification of the listing and search
\* The claims about the listing are about a store nobody writes to during a
\* call: a Title is created only while the caller is idle.
Templates ==
  { [isbn |-> <<"1">>, title |-> <<"a">>, author |-> <<"x">>, genre |-> <<"g">>],
    [isbn |-> <<"2">>, title |-> <<"A", "b">>, author |-> <<"x">>, genre |-> <<"a">>] }
Plain == [isbn |-> <<"1">>, title |-> <<"a">>, author |-> <<"x">>, genre |-> <<"g">>]
PageSizes == {SmallPageSize, DefaultPageSize}
Queries == {<<>>, <<"a">>}

NextTitles ==
  \/ \E t \in (IF nextBookId <= MaxVaried THEN Templates ELSE {Plain}) :
       /\ nextBookId <= MaxTitles
       /\ lst.pc = "idle"
       /\ createBooks(t.isbn, t.title, t.author, t.genre, 1, 1, "c")
  \/ \E pageSize \in PageSizes, sortField \in {"title", "id"},
        sortOrder \in {"asc", "desc", "up"}, searchQuery \in Queries :
       ReadBooksCall(1, pageSize, sortField, sortOrder, searchQuery)
  \/ ReadBooksRows
  \/ ReadBooksCount
  \/ NextPage
  \/ \E query \in Queries, page \in {1, 2}, pageSize \in PageSizes :
       FetchCall(query, page, pageSize)
  \/ FetchRows
  \/ FetchCount
  \/ ListReturn

SpecTitles == Init /\ [][NextTitles]_vars

\* ================================================================== claims
\* C1: a Copy is never deleted while borrowed = true: no step removes a row
\* of physical_books whose borrowed flag is true at the moment of removal.
C1_NeverDeletedWhileBorrowed ==
  [][\A c \in physicalBooks :
       (~ \E d \in physicalBooks' : d.pid = c.pid) => ~c.borrowed]_vars

\* C2: deletePhysicalBook(pid) on an existing Copy with borrowed = true raises
\* "Cannot remove a borrowed book" and leaves the row present and unchanged.
C2_BorrowedCopyRaises ==
  [][\A p \in Deleters :
       (del[p].pc = "idle" /\ del'[p].pc # "idle" /\ del'[p].result # Raised(StoreError))
       => \A c \in physicalBooks :
            (c.pid = del'[p].pid /\ c.borrowed)
            => /\ del'[p].pc = "done"
               /\ del'[p].result = Raised("Cannot remove a borrowed book")
               /\ c \in physicalBooks']_vars

C2_Witness ==
  \E p \in Deleters :
    /\ del[p].result = Raised(BorrowedError)
    /\ \E c \in physicalBooks : c.pid = del[p].pid /\ c.borrowed

\* C3: deletePhysicalBook(pid) with no Copy row of that pid raises the not-found
\* failure, which is not the borrowed-copy failure, and performs no delete.
C3_MissingCopyRaises ==
  [][\A p \in Deleters :
       (del[p].pc = "idle" /\ del'[p].pc # "idle" /\ del'[p].result # Raised(StoreError)
        /\ ~ \E c \in physicalBooks : c.pid = del'[p].pid)
       => /\ del'[p].pc = "done"
          /\ del'[p].result = Raised(NotFoundError)
          /\ del'[p].result # Raised("Cannot remove a borrowed book")
          /\ physicalBooks' = physicalBooks]_vars

C3_Witness ==
  \E p \in Deleters :
    /\ del[p].result = Raised(NotFoundError)
    /\ del[p].pid < nextPid
    /\ physicalBooks # {}

\* C4: deletePhysicalBook(pid) on an existing Copy with borrowed = false returns
\* true, and afterwards readPhysicalBooks of its Title holds no row of that pid.
C4_AvailableCopyDeleted ==
  \A p \in Deleters :
    (/\ del[p].pc = "done"
     /\ Len(del[p].physicalBook) = 1
     /\ del[p].result # Raised(StoreError))
    => \/ del[p].physicalBook[1].borrowed
       \/ /\ del[p].result = Value(TRUE)
          /\ LET rows == readPhysicalBooks(del[p].physicalBook[1].bookId) IN
             \A i \in 1..Len(rows) : rows[i].pid # del[p].pid
          /\ \A c \in physicalBooks : c.pid # del[p].pid

C4_Witness ==
  \E p \in Deleters :
    /\ del[p].result = Value(TRUE)
    /\ Len(readPhysicalBooks(del[p].physicalBook[1].bookId)) > 0

\* C10: every step of deletePhysicalBook(pid), whatever its outcome, leaves every
\* Copy row of another pid and every Title row (its counters included) unchanged.
C10_DeleteFrame ==
  [][\A p \in Deleters :
       del'[p] # del[p]
       => LET pid == IF del[p].pc = "idle" THEN del'[p].pid ELSE del[p].pid IN
          /\ books' = books
          /\ {c \in physicalBooks' : c.pid # pid} = {c \in physicalBooks : c.pid # pid}
          /\ nextPid' = nextPid /\ nextBookId' = nextBookId]_vars

C10_Witness ==
  \E p \in Deleters :
    /\ del[p].result = Value(TRUE)
    /\ books # {}
    /\ \E c \in physicalBooks : c.bookId = del[p].physicalBook[1].bookId

\* C5: for an existing Title id readSingleBook(id) returns the Title's fields plus
\* availableBooks = the number of Copy rows with bookId = id and borrowed = false,
\* whatever the Title's availableCopies holds; for an id with no Title, null.
C5_AvailabilityIsDerived ==
  [][/\ (rsb.pc = "idle" /\ rsb'.pc # "idle" /\ rsb'.result # Raised(StoreError))
        => IF \E b \in books : b.id = rsb'.bookId
           THEN rsb'.pc = "count" /\ rsb'.book[1] \in books /\ rsb'.book[1].id = rsb'.bookId
           ELSE rsb'.pc = "done" /\ rsb'.result = Null
     /\ (rsb.pc = "count" /\ rsb'.pc = "done" /\ rsb'.result # Raised(StoreError))
        => /\ rsb'.result.js = "value"
           /\ \A k \in DOMAIN rsb.book[1] : rsb'.result.value[k] = rsb.book[1][k]
           /\ rsb'.result.value.availableBooks =
                Cardinality({c \in physicalBooks : c.bookId = rsb.bookId /\ ~c.borrowed})
    ]_vars

C5_Witness ==
  /\ rsb.pc = "done"
  /\ rsb.result.js = "value"
  /\ rsb.result.value.availableBooks = 2
  /\ rsb.result.value.availableCopies = 0
  /\ \E c \in physicalBooks : c.bookId = rsb.bookId /\ c.borrowed

\* C9: updateBooks returns null both when the store call fails and when no Title
\* has the id; when the Title exists and the call succeeds it returns the Title
\* with only totalCopies and availableCopies changed.
C9_NullForFailedAndMissing ==
  [][upd' # upd
     => IF upd'.error \/ ~ \E b \in books : b.id = upd'.id
        THEN upd'.result = Null
        ELSE \E b \in books :
               /\ b.id = upd'.id
               /\ upd'.result =
                    Value([b EXCEPT !.totalCopies = upd'.totalCopies,
                                    !.availableCopies = upd'.availableCopies])
    ]_vars
\* The rows a listing of every page returned, once its last page is in
ListedAll ==
  /\ lst.pc = "done" /\ lst.op = "readBooks" /\ lst.result.js = "value"
  /\ lst.page >= lst.result.value.totalPages
Listed == lst.acc \o lst.result.value.books

\* C6: with no concurrent write and a fixed sort and filter, the pages
\* 1..ceil(totalBooks/pageSize) of readBooks together hold exactly totalBooks
\* rows and no Title twice, also when Titles tie on the sort field.
C6_PagesPartitionTheListing ==
  ListedAll
  => /\ Len(Listed) = Number(lst.result.value.totalBooks)
     /\ \A i, j \in 1..Len(Listed) : Listed[i].id = Listed[j].id => i = j

\* C7 as stated: readBooks(1, 10) with no search query over N <= 10 Titles
\* returns all N Titles and totalPages = 1.
FirstDefaultPage ==
  /\ lst.pc = "done" /\ lst.op = "readBooks" /\ lst.result.js = "value"
  /\ lst.page = 1 /\ lst.pageSize = DefaultPageSize /\ lst.query = <<>>
  /\ Cardinality(books) <= DefaultPageSize

C7_SinglePageAsStated ==
  FirstDefaultPage
  => /\ {lst.result.value.books[i] : i \in 1..Len(lst.result.value.books)} = books
     /\ Len(lst.result.value.books) = Cardinality(books)
     /\ lst.result.value.totalPages = 1

\* C7 amended: ... returns all N Titles; totalPages = 1 when 1 <= N <= 10 and
\* totalPages = 0 when N = 0.
C7_SinglePage ==
  FirstDefaultPage
  => /\ {lst.result.value.books[i] : i \in 1..Len(lst.result.value.books)} = books
     /\ Len(lst.result.value.books) = Cardinality(books)
     /\ lst.result.value.totalPages = (IF books = {} THEN 0 ELSE 1)

C7_Witness ==
  /\ FirstDefaultPage
  /\ Cardinality(books) = DefaultPageSize
  /\ lst.result.value.totalPages = 1

\* C8: fetchBooksByQuery never raises: when either of its store queries fails it
\* returns {books: [], totalPages: 0, currentPage: page, totalBooks: 0}.
C8_SearchNeverRaises ==
  (lst.pc = "done" /\ lst.op = "fetchBooksByQuery")
  => /\ lst.result.js = "value"
     /\ (lst.rows.js = "throw" \/ lst.total.js = "throw")
        => lst.result.value = [books |-> <<>>, totalPages |-> 0,
                               currentPage |-> lst.page, totalBooks |-> 0]

C8_Witness ==
  /\ lst.pc = "done" /\ lst.op = "fetchBooksByQuery"
  /\ lst.total.js = "throw" /\ lst.rows.js = "value" /\ Len(lst.rows.value) > 0
  /\ lst.page = 2
  /\ lst.result.js = "value" /\ lst.result.value.currentPage = 2
====
